---- MODULE Spec2Model ----
(***************************************************************************)
(* ST7735 display driver (src/src/lib.rs).                                 *)
(*                                                                         *)
(* The driver is straight-line code over three fallible collaborators: the *)
(* reset pin, the data/command pin and the SPI transport, plus a delay     *)
(* source.  Every driver function is written here as the sequence of       *)
(* primitive instructions its body performs, in source order; the `?`      *)
(* after each fallible call is the abort-on-failure rule of the step       *)
(* actions.  The step actions execute one primitive at a time, so that a   *)
(* failure can be injected at every fallible call and a transport write    *)
(* has a start and a completion.                                           *)
(***************************************************************************)
EXTENDS Integers, Sequences, FiniteSets, TLC

VARIABLES
    rgb, inverted, dx, dy, width, height,  \* fields of the ST7735 handle
    dc, rst,                \* level last driven on the data/command and reset pins
    overflow_checks,        \* whether the build traps on integer overflow
    op,                     \* the public operation in progress or last run, with its arguments
    todo,                   \* the primitive instructions the operation has still to perform
    result,                 \* "running", "ok", "err" or "panic"
    failed,                 \* the instruction whose failure ended the operation, or None
    trace,                  \* effects the operation has completed, in order
    inflight,               \* the bytes of the transport write awaited, or None
    words, buffer, index,   \* write_words_buffered: the iterator, and its locals
    mark                    \* length of trace when write_words_buffered was entered

vars == << rgb, inverted, dx, dy, width, height, dc, rst, overflow_checks, op, todo,
           result, failed, trace, inflight, words, buffer, index, mark >>

handle == << rgb, inverted, dx, dy, width, height >>
locals == << words, buffer, index, mark >>

\* Option<T>: None, Some(x), is_some and unwrap
None == { }
Some(x) == { x }
is_some(o) == o # { }
unwrap(o) == CHOOSE x \in o : TRUE

NoOp == << "new" >>

(***************************************************************************)
(* Bounds of the model.                                                    *)
(***************************************************************************)
\* longest colour sequence given to the unbuffered operations
MaxColors == 3
\* longest colour sequence given to the buffered operations
MaxWords == 34
\* largest rectangle side, in pixels
MaxSide == 5

U16 == 65536
BufferLen == 32

Levels == { "low", "high" }

(***************************************************************************)
(* Instruction (module instruction, not among the sources): the opcode     *)
(* each instruction name converts to, as the controller's datasheet fixes  *)
(* it.  The properties name instructions, never opcode values.             *)
(***************************************************************************)
Instruction ==
    { "SWRESET", "SLPOUT", "FRMCTR1", "FRMCTR2", "FRMCTR3", "INVCTR", "PWCTR1",
      "PWCTR2", "PWCTR3", "PWCTR4", "PWCTR5", "VMCTR1", "INVOFF", "INVON",
      "MADCTL", "COLMOD", "DISPON", "CASET", "RASET", "RAMWR" }

to_u8(command) ==
    CASE command = "SWRESET" -> \h01
      [] command = "SLPOUT"  -> \h11
      [] command = "INVOFF"  -> \h20
      [] command = "INVON"   -> \h21
      [] command = "DISPON"  -> \h29
      [] command = "CASET"   -> \h2A
      [] command = "RASET"   -> \h2B
      [] command = "RAMWR"   -> \h2C
      [] command = "MADCTL"  -> \h36
      [] command = "COLMOD"  -> \h3A
      [] command = "FRMCTR1" -> \hB1
      [] command = "FRMCTR2" -> \hB2
      [] command = "FRMCTR3" -> \hB3
      [] command = "INVCTR"  -> \hB4
      [] command = "PWCTR1"  -> \hC0
      [] command = "PWCTR2"  -> \hC1
      [] command = "PWCTR3"  -> \hC2
      [] command = "PWCTR4"  -> \hC3
      [] command = "PWCTR5"  -> \hC4
      [] command = "VMCTR1"  -> \hC5

(***************************************************************************)
(* Orientation and its discriminants.                                      *)
(***************************************************************************)
Orientation == { "Portrait", "Landscape", "PortraitSwapped", "LandscapeSwapped" }

orientation_to_u8(orientation) ==
    CASE orientation = "Portrait"         -> \h00
      [] orientation = "Landscape"        -> \h60
      [] orientation = "PortraitSwapped"  -> \hC0
      [] orientation = "LandscapeSwapped" -> \hA0

(***************************************************************************)
(* Integer helpers: u16::to_be_bytes, and the bitwise OR of two bytes.     *)
(***************************************************************************)
\* to_be_bytes with the two bytes in little-endian order
to_be_bytes_le(value) == << value % 256, value \div 256 >>

to_be_bytes(value) == << value \div 256, value % 256 >>

RECURSIVE BitOr(_, _)
BitOr(a, b) ==
    IF a = 0 THEN b
    ELSE IF b = 0 THEN a
    ELSE (IF a % 2 = 1 \/ b % 2 = 1 THEN 1 ELSE 0) + 2 * BitOr(a \div 2, b \div 2)

(***************************************************************************)
(* Primitive instructions.                                                 *)
(*   <<"rst", l>>   self.rst.set_high()/set_low(), `?`                     *)
(*   <<"dc", l>>    self.dc.set_high()/set_low(), `?`                      *)
(*   <<"delay", n>> delay.delay_ms(n)                                      *)
(*   <<"spi", b>>   self.spi.write(b).await, `?`                           *)
(*   <<"add", a, b>> self.write_word(a + b): the u16 addition, then the    *)
(*                   write                                                 *)
(*   <<"wwb", ws>>, <<"for">>, <<"index0">>  write_words_buffered          *)
(***************************************************************************)
RECURSIVE Flatten(_)
Flatten(ss) == IF ss = << >> THEN << >> ELSE Head(ss) \o Flatten(Tail(ss))

start_data == << <<"dc", "high">> >>

write_data(data) == << <<"spi", data>> >>

\* write_command without start_data: the parameters go out with the line low
write_command_no_start_data(command, params) ==
    << <<"dc", "low">>, <<"spi", << to_u8(command) >> >> >>
    \o (IF is_some(params) THEN write_data(unwrap(params)) ELSE << >>)

\* write_command with the line driven high before the opcode is written
write_command_high_early(command, params) ==
    << <<"dc", "low">> >>
    \o (IF is_some(params) THEN start_data ELSE << >>)
    \o << <<"spi", << to_u8(command) >> >> >>
    \o (IF is_some(params) THEN write_data(unwrap(params)) ELSE << >>)

write_command(command, params) ==
    << <<"dc", "low">>, <<"spi", << to_u8(command) >> >> >>
    \o (IF is_some(params)
        THEN start_data \o write_data(unwrap(params))
        ELSE << >>)

write_word(value) == write_data(to_be_bytes(value))

\* hard_reset as a single low pulse, without the first drive to high
hard_reset_pulse ==
    << <<"rst", "low">>, <<"delay", 10>>, <<"rst", "high">> >>

hard_reset ==
    << <<"rst", "high">>, <<"delay", 10>>, <<"rst", "low">>, <<"delay", 10>>,
       <<"rst", "high">> >>

\* init_inversion with the two branches exchanged
init_inversion_swapped ==
    IF inverted
    THEN write_command("INVOFF", None)
    ELSE write_command("INVON", None)

\* init, lines 118-122: if self.inverted { INVON } else { INVOFF }
init_inversion ==
    IF inverted
    THEN write_command("INVON", None)
    ELSE write_command("INVOFF", None)

\* init_color_order with the colour order taken from the panel width
init_color_order_by_width ==
    IF width = 128
    THEN write_command("MADCTL", Some(<< \h00 >>))
    ELSE write_command("MADCTL", Some(<< \h08 >>))

\* init, lines 123-129: if self.rgb { MADCTL 0x00 } else { MADCTL 0x08 }
init_color_order ==
    IF rgb
    THEN write_command("MADCTL", Some(<< \h00 >>))
    ELSE write_command("MADCTL", Some(<< \h08 >>))

init ==
    hard_reset
    \o write_command("SWRESET", None)
    \o << <<"delay", 200>> >>
    \o write_command("SLPOUT", None)
    \o << <<"delay", 200>> >>
    \o write_command("FRMCTR1", Some(<< \h01, \h2C, \h2D >>))
    \o write_command("FRMCTR2", Some(<< \h01, \h2C, \h2D >>))
    \o write_command("FRMCTR3", Some(<< \h01, \h2C, \h2D, \h01, \h2C, \h2D >>))
    \o write_command("INVCTR", Some(<< \h07 >>))
    \o write_command("PWCTR1", Some(<< \hA2, \h02, \h84 >>))
    \o write_command("PWCTR2", Some(<< \hC5 >>))
    \o write_command("PWCTR3", Some(<< \h0A, \h00 >>))
    \o write_command("PWCTR4", Some(<< \h8A, \h2A >>))
    \o write_command("PWCTR5", Some(<< \h8A, \hEE >>))
    \o write_command("VMCTR1", Some(<< \h0E >>))
    \o init_inversion
    \o init_color_order
    \o write_command("COLMOD", Some(<< \h05 >>))
    \o write_command("DISPON", None)
    \o << <<"delay", 200>> >>

write_words_buffered(ws) == << <<"wwb", ws>> >>

\* set_orientation without the colour-order bit
set_orientation_ignores_rgb(orientation) ==
    write_command("MADCTL", Some(<< orientation_to_u8(orientation) >>))

set_orientation(orientation) ==
    IF rgb
    THEN write_command("MADCTL", Some(<< orientation_to_u8(orientation) >>))
    ELSE write_command("MADCTL", Some(<< BitOr(orientation_to_u8(orientation), \h08) >>))

\* set_address_window with the column offset added to the rows as well
set_address_window_dx_only(sx, sy, ex, ey) ==
    write_command("CASET", None)
    \o start_data
    \o << <<"add", sx, dx>>, <<"add", ex, dx>> >>
    \o write_command("RASET", None)
    \o start_data
    \o << <<"add", sy, dx>>, <<"add", ey, dx>> >>

set_address_window(sx, sy, ex, ey) ==
    write_command("CASET", None)
    \o start_data
    \o << <<"add", sx, dx>>, <<"add", ex, dx>> >>
    \o write_command("RASET", None)
    \o start_data
    \o << <<"add", sy, dy>>, <<"add", ey, dy>> >>

\* set_pixel without the start_data() before the colour
set_pixel_no_start_data(x, y, color) ==
    set_address_window(x, y, x, y)
    \o write_command("RAMWR", None)
    \o write_word(color)

set_pixel(x, y, color) ==
    set_address_window(x, y, x, y)
    \o write_command("RAMWR", None)
    \o start_data
    \o write_word(color)

\* write_pixels going through the buffered writer
write_pixels_through_buffer(colors) ==
    write_command("RAMWR", None)
    \o start_data
    \o write_words_buffered(colors)

write_pixels(colors) ==
    write_command("RAMWR", None)
    \o start_data
    \o Flatten([i \in 1 .. Len(colors) |-> write_word(colors[i])])

write_pixels_buffered(colors) ==
    write_command("RAMWR", None)
    \o start_data
    \o write_words_buffered(colors)

set_pixels(sx, sy, ex, ey, colors) ==
    set_address_window(sx, sy, ex, ey) \o write_pixels(colors)

\* set_pixels_buffered handing sy and ex to set_address_window in each
\* other's place
set_pixels_buffered_swapped(sx, sy, ex, ey, colors) ==
    set_address_window(sx, ex, sy, ey) \o write_pixels_buffered(colors)

set_pixels_buffered(sx, sy, ex, ey, colors) ==
    set_address_window(sx, sy, ex, ey) \o write_pixels_buffered(colors)

(***************************************************************************)
(* The graphics adapter.  Point coordinates are i32, cast with `as u16`;   *)
(* a colour is its raw 16-bit value; the style's colours are None or a     *)
(* colour.  Only styles with a fill colour are modelled: the others go     *)
(* through the pixel iterator of the graphics library.                     *)
(***************************************************************************)
as_u16(v) == v % U16

\* rect_colors without the test for the bottom rows
rect_colors_open_bottom(rect_width, rect_height, fill, stroke, stroke_width) ==
    LET rect_size == rect_width * rect_height
        n == IF rect_size > 0 THEN rect_size ELSE 0
    IN  IF ~is_some(stroke)
        THEN [k \in 1 .. n |-> fill]
        ELSE [k \in 1 .. n |->
                LET i == k - 1
                IN  IF \/ i % rect_width <= stroke_width
                       \/ i % rect_width >= rect_width - stroke_width
                       \/ i <= stroke_width * rect_width
                    THEN unwrap(stroke)
                    ELSE fill]

rect_colors(rect_width, rect_height, fill, stroke, stroke_width) ==
    LET rect_size == rect_width * rect_height
        n == IF rect_size > 0 THEN rect_size ELSE 0
    IN  IF ~is_some(stroke)
        THEN [k \in 1 .. n |-> fill]
        ELSE [k \in 1 .. n |->
                LET i == k - 1
                IN  IF \/ i % rect_width <= stroke_width
                       \/ i % rect_width >= rect_width - stroke_width
                       \/ i <= stroke_width * rect_width
                       \/ i >= (rect_height - stroke_width) * rect_width
                    THEN unwrap(stroke)
                    ELSE fill]

\* draw_rectangle with the sides computed without the `+ 1`
draw_rectangle_exclusive(top_left, bottom_right, fill, stroke, stroke_width) ==
    LET rect_width == bottom_right[1] - top_left[1]
        rect_height == bottom_right[2] - top_left[2]
    IN  set_pixels_buffered(
            as_u16(top_left[1]), as_u16(top_left[2]),
            as_u16(bottom_right[1]), as_u16(bottom_right[2]),
            rect_colors(rect_width, rect_height, fill, stroke, stroke_width))

draw_rectangle(top_left, bottom_right, fill, stroke, stroke_width) ==
    LET rect_width == bottom_right[1] - top_left[1] + 1
        rect_height == bottom_right[2] - top_left[2] + 1
    IN  set_pixels_buffered(
            as_u16(top_left[1]), as_u16(top_left[2]),
            as_u16(bottom_right[1]), as_u16(bottom_right[2]),
            rect_colors(rect_width, rect_height, fill, stroke, stroke_width))

\* draw_image: the corners are cast with `as u16`; `ex - 1` and `ey - 1` are
\* u16 subtractions, evaluated as arguments before set_pixels_buffered runs
draw_image(top_left, bottom_right, pixels) ==
    LET sx == as_u16(top_left[1])
        sy == as_u16(top_left[2])
        ex == as_u16(bottom_right[1])
        ey == as_u16(bottom_right[2])
    IN  << <<"sub", ex, 1>>, <<"sub", ey, 1>> >>
        \o set_pixels_buffered(sx, sy, (ex - 1) % U16, (ey - 1) % U16, pixels)

(***************************************************************************)
(* Inputs.                                                                 *)
(***************************************************************************)
Panels == { <<128, 160>>, <<80, 160>> }
Offsets == { <<0, 0>>, <<26, 1>>, <<65535, 0>>, <<0, 65535>> }
Xs == { 0, 5, 65535 }
Ys == { 7, 65535 }
Windows == { <<0, 0, 1, 1>>, <<5, 7, 6, 9>>, <<65530, 3, 65535, 4>> }
Pixels == { \hF800, \h07E0 }
Gens == { "solid", "ramp" }

WordAt(g, i) == IF g = "solid" THEN \hF800 ELSE (\h00FF + 259 * i) % U16

Colors(g, n) == [i \in 1 .. n |-> WordAt(g, i)]

ColorSeqs(max) == { Colors(g, n) : g \in Gens, n \in 0 .. max }

\* colours that fill the buffer of write_words_buffered once, and one more
LongColors == { Colors("ramp", BufferLen \div 2), Colors("ramp", BufferLen \div 2 + 1) }

WindowColors == ColorSeqs(MaxColors) \cup LongColors

ImageCorners == { <<0, 0>>, <<2, 3>>, <<-2, 0>>, <<1, -2>>, <<-2, -2>> }
ImageSizes == { <<2, 1>>, <<1, 2>>, <<4, 4>>, <<0, 1>> }
Corners == { <<3, 2>>, <<-1, 0>> }
Styles == { << \hF800, None, 1 >>, << \hF800, Some(\h001F), 1 >>,
            << \hF800, Some(\h001F), 0 >>, << \hF800, Some(\h001F), 2 >> }

(***************************************************************************)
(* Construction: ST7735::new.                                              *)
(***************************************************************************)
new(r, i, w, h) ==
    /\ rgb = r /\ inverted = i
    /\ dx = 0 /\ dy = 0
    /\ width = w /\ height = h

Init ==
    /\ \E r \in BOOLEAN, i \in BOOLEAN, p \in Panels : new(r, i, p[1], p[2])
    /\ dc \in Levels /\ rst \in Levels
    /\ overflow_checks \in BOOLEAN
    /\ op = NoOp /\ todo = << >> /\ result = "ok" /\ failed = None
    /\ trace = << >> /\ inflight = None
    /\ words = << >> /\ buffer = << >> /\ index = 0 /\ mark = 0

(***************************************************************************)
(* Calls of the public operations.  A call starts when no operation of the *)
(* handle is running (the handle is borrowed mutably for the whole call)   *)
(* and the program has not panicked.                                       *)
(***************************************************************************)
Continue(rest) ==
    /\ todo' = rest
    /\ result' = IF rest = << >> THEN "ok" ELSE "running"

Callable == result \in { "ok", "err" }

Begin(o, body) ==
    /\ Callable
    /\ op' = o
    /\ Continue(body)
    /\ trace' = << >> /\ failed' = None
    /\ words' = << >> /\ buffer' = << >> /\ index' = 0 /\ mark' = 0
    /\ UNCHANGED << handle, dc, rst, overflow_checks, inflight >>

Call_init == Begin(<<"init">>, init)

Call_set_orientation ==
    \E o \in Orientation : Begin(<<"set_orientation", o>>, set_orientation(o))

\* set_offset adding its arguments to the stored offset
Call_set_offset_relative ==
    \E p \in Offsets :
        /\ Callable
        /\ dx' = (dx + p[1]) % U16 /\ dy' = (dy + p[2]) % U16
        /\ op' = <<"set_offset", p[1], p[2]>>
        /\ Continue(<< >>)
        /\ trace' = << >> /\ failed' = None
        /\ words' = << >> /\ buffer' = << >> /\ index' = 0 /\ mark' = 0
        /\ UNCHANGED << rgb, inverted, width, height, dc, rst, overflow_checks,
                        inflight >>

Call_set_offset ==
    \E p \in Offsets :
        /\ Callable
        /\ dx' = p[1] /\ dy' = p[2]
        /\ op' = <<"set_offset", p[1], p[2]>>
        /\ Continue(<< >>)
        /\ trace' = << >> /\ failed' = None
        /\ words' = << >> /\ buffer' = << >> /\ index' = 0 /\ mark' = 0
        /\ UNCHANGED << rgb, inverted, width, height, dc, rst, overflow_checks,
                        inflight >>

Call_set_pixel ==
    \E x \in Xs, y \in Ys, color \in Pixels :
        Begin(<<"set_pixel", x, y, color>>, set_pixel(x, y, color))

Call_write_pixels ==
    \E colors \in ColorSeqs(MaxColors) :
        Begin(<<"write_pixels", colors>>, write_pixels(colors))

Call_write_pixels_buffered ==
    \E colors \in ColorSeqs(MaxWords) :
        Begin(<<"write_pixels_buffered", colors>>, write_pixels_buffered(colors))

Call_set_pixels ==
    \E w \in Windows, colors \in WindowColors :
        Begin(<<"set_pixels", w, colors>>, set_pixels(w[1], w[2], w[3], w[4], colors))

Call_set_pixels_buffered ==
    \E w \in Windows, colors \in WindowColors :
        Begin(<<"set_pixels_buffered", w, colors>>,
              set_pixels_buffered(w[1], w[2], w[3], w[4], colors))

\* write_command on the arguments its callers give it
CommandCalls ==
    { <<c, None>> : c \in { "SWRESET", "INVON", "CASET", "RAMWR" } }
    \cup { <<"FRMCTR3", Some(<< \h01, \h2C, \h2D, \h01, \h2C, \h2D >>)>>,
           <<"PWCTR3", Some(<< \h0A, \h00 >>)>>,
           <<"COLMOD", Some(<< \h05 >>)>> }
    \cup { <<"MADCTL", Some(<< BitOr(orientation_to_u8(o), b) >>)>> :
             o \in Orientation, b \in { \h00, \h08 } }

Call_write_command ==
    \E c \in CommandCalls :
        Begin(<<"write_command", c[1], c[2]>>, write_command(c[1], c[2]))

Call_draw_rectangle ==
    \E tl \in Corners, w \in 1 .. MaxSide, h \in 1 .. MaxSide, st \in Styles :
        LET br == << tl[1] + w - 1, tl[2] + h - 1 >>
        IN  Begin(<<"draw_rectangle", tl, br, st>>,
                  draw_rectangle(tl, br, st[1], st[2], st[3]))

\* an image: its top-left corner, its size and its pixels in iterator order;
\* bottom_right() is the exclusive extent top_left + size
Call_draw_image ==
    \E tl \in ImageCorners, sz \in ImageSizes :
        LET br == << tl[1] + sz[1], tl[2] + sz[2] >>
            pixels == Colors("ramp", sz[1] * sz[2])
        IN  Begin(<<"draw_image", tl, br, pixels>>, draw_image(tl, br, pixels))

(***************************************************************************)
(* Execution of the primitive instructions.                                *)
(***************************************************************************)
Running == result = "running" /\ todo # << >>

Emit(e) == trace' = Append(trace, e)

Abort(why) ==
    /\ result' = why
    /\ failed' = Some(Head(todo))
    /\ todo' = << >>

\* self.rst.set_high() / set_low() succeeds
RstDrive ==
    /\ Running /\ Head(todo)[1] = "rst"
    /\ rst' = Head(todo)[2]
    /\ Emit(Head(todo))
    /\ Continue(Tail(todo))
    /\ UNCHANGED << handle, dc, overflow_checks, op, failed, inflight, locals >>

\* self.rst.set_high() / set_low() fails: map_err(|_| ())?
RstFail ==
    /\ Running /\ Head(todo)[1] = "rst"
    /\ Abort("err")
    /\ UNCHANGED << handle, dc, rst, overflow_checks, op, trace, inflight, locals >>

\* self.dc.set_low() / set_high() succeeds
DcDrive ==
    /\ Running /\ Head(todo)[1] = "dc"
    /\ dc' = Head(todo)[2]
    /\ Emit(Head(todo))
    /\ Continue(Tail(todo))
    /\ UNCHANGED << handle, rst, overflow_checks, op, failed, inflight, locals >>

\* DcFail without the `?`: the error is dropped and the operation goes on
DcFail_ignored ==
    /\ Running /\ Head(todo)[1] = "dc"
    /\ Continue(Tail(todo))
    /\ UNCHANGED << handle, dc, rst, overflow_checks, op, failed, trace, inflight, locals >>

\* self.dc.set_low() / set_high() fails: map_err(|_| ())?
DcFail ==
    /\ Running /\ Head(todo)[1] = "dc"
    /\ Abort("err")
    /\ UNCHANGED << handle, dc, rst, overflow_checks, op, trace, inflight, locals >>

\* delay.delay_ms(n)
Delay ==
    /\ Running /\ Head(todo)[1] = "delay"
    /\ Emit(Head(todo))
    /\ Continue(Tail(todo))
    /\ UNCHANGED << handle, dc, rst, overflow_checks, op, failed, inflight, locals >>

\* SpiStart without the await: the write is started and the operation goes on
SpiStart_detached ==
    /\ Running /\ Head(todo)[1] = "spi"
    /\ inflight' = Some(Head(todo)[2])
    /\ Continue(Tail(todo))
    /\ UNCHANGED << handle, dc, rst, overflow_checks, op, failed, trace, locals >>

\* self.spi.write(data) is called and the future is awaited
SpiStart ==
    /\ Running /\ Head(todo)[1] = "spi"
    /\ inflight = None
    /\ inflight' = Some(Head(todo)[2])
    /\ UNCHANGED << handle, dc, rst, overflow_checks, op, todo, result, failed, trace,
                    locals >>

\* the awaited write completes with Ok
SpiDone ==
    /\ Running /\ is_some(inflight)
    /\ Emit(<<"write", unwrap(inflight)>>)
    /\ inflight' = None
    /\ Continue(Tail(todo))
    /\ UNCHANGED << handle, dc, rst, overflow_checks, op, failed, locals >>

\* SpiFail without the `?`: the error is dropped and the operation goes on
SpiFail_ignored ==
    /\ Running /\ is_some(inflight)
    /\ inflight' = None
    /\ Continue(Tail(todo))
    /\ UNCHANGED << handle, dc, rst, overflow_checks, op, failed, trace, locals >>

\* the awaited write completes with Err: map_err(|_| ())?
SpiFail ==
    /\ Running /\ is_some(inflight)
    /\ inflight' = None
    /\ Abort("err")
    /\ UNCHANGED << handle, dc, rst, overflow_checks, op, trace, locals >>

\* `a + b` on u16 fits, or wraps in a build without overflow checks
AddWord ==
    /\ Running /\ Head(todo)[1] = "add"
    /\ LET sum == Head(todo)[2] + Head(todo)[3]
       IN  /\ sum < U16 \/ ~overflow_checks
           /\ todo' = write_word(sum % U16) \o Tail(todo)
    /\ UNCHANGED << handle, dc, rst, overflow_checks, op, result, failed, trace, inflight,
                    locals >>

\* `a + b` on u16 overflows in a build with overflow checks: panic
AddPanic ==
    /\ Running /\ Head(todo)[1] = "add"
    /\ Head(todo)[2] + Head(todo)[3] >= U16 /\ overflow_checks
    /\ Abort("panic")
    /\ UNCHANGED << handle, dc, rst, overflow_checks, op, trace, inflight, locals >>

\* `a - b` on u16 does not underflow, or wraps in a build without overflow checks
SubWord ==
    /\ Running /\ Head(todo)[1] = "sub"
    /\ Head(todo)[2] >= Head(todo)[3] \/ ~overflow_checks
    /\ Continue(Tail(todo))
    /\ UNCHANGED << handle, dc, rst, overflow_checks, op, failed, trace, inflight, locals >>

\* `a - b` on u16 underflows in a build with overflow checks: panic
SubPanic ==
    /\ Running /\ Head(todo)[1] = "sub"
    /\ Head(todo)[2] < Head(todo)[3] /\ overflow_checks
    /\ Abort("panic")
    /\ UNCHANGED << handle, dc, rst, overflow_checks, op, trace, inflight, locals >>

\* write_words_buffered is entered: let mut buffer = [0; 32]; let mut index = 0;
WwbEnter ==
    /\ Running /\ Head(todo)[1] = "wwb"
    /\ words' = Head(todo)[2]
    /\ buffer' = [i \in 1 .. BufferLen |-> 0]
    /\ index' = 0
    /\ mark' = Len(trace)
    /\ todo' = << <<"for">> >> \o Tail(todo)
    /\ UNCHANGED << handle, dc, rst, overflow_checks, op, result, failed, trace, inflight >>

\* one iteration of `for word in words`, up to the flush it may start
ForWord ==
    /\ Running /\ Head(todo)[1] = "for"
    /\ words # << >>
    /\ LET word == Head(words)
           as_bytes == to_be_bytes(word)
       IN  IF index + 1 >= Len(buffer)
           THEN /\ Abort("panic")
                /\ UNCHANGED << words, buffer, index >>
           ELSE /\ buffer' = [buffer EXCEPT ![index + 1] = as_bytes[1],
                                            ![index + 2] = as_bytes[2]]
                /\ index' = index + 2
                /\ words' = Tail(words)
                /\ todo' = IF index' >= Len(buffer)
                           THEN write_data(buffer') \o << <<"index0">> >> \o todo
                           ELSE todo
                /\ UNCHANGED << result, failed >>
    /\ UNCHANGED << handle, dc, rst, overflow_checks, op, trace, inflight, mark >>

\* ForReset without the assignment: index stays where the flush found it
ForReset_keeps_index ==
    /\ Running /\ Head(todo)[1] = "index0"
    /\ todo' = Tail(todo)
    /\ UNCHANGED << handle, dc, rst, overflow_checks, op, result, failed, trace, inflight,
                    locals >>

\* the flush inside the loop has succeeded: index = 0;
ForReset ==
    /\ Running /\ Head(todo)[1] = "index0"
    /\ index' = 0
    /\ todo' = Tail(todo)
    /\ UNCHANGED << handle, dc, rst, overflow_checks, op, result, failed, trace, inflight,
                    words, buffer, mark >>

\* ForEnd, except that an empty residue is not written
ForEnd_skip_empty ==
    /\ Running /\ Head(todo)[1] = "for"
    /\ words = << >>
    /\ Continue(IF index = 0
                THEN Tail(todo)
                ELSE write_data(SubSeq(buffer, 1, index)) \o Tail(todo))
    /\ UNCHANGED << handle, dc, rst, overflow_checks, op, failed, trace, inflight,
                    locals >>

\* the iterator is exhausted: self.write_data(&buffer[0..index]).await
ForEnd ==
    /\ Running /\ Head(todo)[1] = "for"
    /\ words = << >>
    /\ todo' = write_data(SubSeq(buffer, 1, index)) \o Tail(todo)
    /\ UNCHANGED << handle, dc, rst, overflow_checks, op, result, failed, trace, inflight,
                    locals >>

(***************************************************************************)
(* Specifications.  Each runs any sequence of the operations it lists on   *)
(* one handle; the primitive steps are shared.                             *)
(***************************************************************************)
\* the bring-up sequence, on every configuration
NextInit ==
    \/ Call_init
    \/ Call_set_offset
    \/ RstDrive \/ RstFail
    \/ Delay
    \/ DcDrive \/ DcFail
    \/ SpiStart \/ SpiDone \/ SpiFail

SpecInit == Init /\ [][NextInit]_vars

\* the fields and the pin no drawing operation reads are fixed
InitDrawing == Init /\ ~inverted /\ rst = "high" /\ width = 128

\* the buffered writer on long colour sequences
NextBuf ==
    \/ Call_write_pixels_buffered
    \/ DcDrive \/ DcFail
    \/ SpiStart \/ SpiDone \/ SpiFail
    \/ WwbEnter \/ ForWord \/ ForReset \/ ForEnd

SpecBuf == InitDrawing /\ [][NextBuf]_vars

\* orientation, offset and the unbuffered drawing operations
Next ==
    \/ Call_set_orientation
    \/ Call_set_offset
    \/ Call_set_pixel
    \/ Call_write_pixels
    \/ Call_set_pixels
    \/ DcDrive \/ DcFail
    \/ SpiStart \/ SpiDone \/ SpiFail
    \/ AddWord \/ AddPanic

Spec == InitDrawing /\ [][Next]_vars

\* the command framer alone
NextCmd ==
    \/ Call_write_command
    \/ DcDrive \/ DcFail
    \/ SpiStart \/ SpiDone \/ SpiFail

SpecCmd == InitDrawing /\ [][NextCmd]_vars

\* filled rectangles, with pins and a transport that never fail
NextRect ==
    \/ Call_set_offset
    \/ Call_draw_rectangle
    \/ DcDrive
    \/ SpiStart \/ SpiDone
    \/ AddWord \/ AddPanic
    \/ WwbEnter \/ ForWord \/ ForReset \/ ForEnd

InitRect == InitDrawing /\ rgb = TRUE

SpecRect == InitRect /\ [][NextRect]_vars

\* every public operation that talks to the panel, on a handle whose offset
\* stays (0, 0), so that no addition overflows, with pins and a transport
\* that may fail
NextOps ==
    \/ Call_init
    \/ Call_set_orientation
    \/ Call_set_pixel
    \/ Call_write_pixels
    \/ Call_write_pixels_buffered
    \/ Call_set_pixels
    \/ Call_set_pixels_buffered
    \/ RstDrive \/ RstFail
    \/ Delay
    \/ DcDrive \/ DcFail
    \/ SpiStart \/ SpiDone \/ SpiFail
    \/ AddWord
    \/ WwbEnter \/ ForWord \/ ForReset \/ ForEnd

InitOps == InitDrawing /\ overflow_checks = TRUE

SpecOps == InitOps /\ [][NextOps]_vars

\* the offset and the operations that set an address window, with pins and a
\* transport that never fail
NextOffset ==
    \/ Call_set_offset
    \/ Call_set_pixel
    \/ Call_set_pixels
    \/ Call_set_pixels_buffered
    \/ DcDrive
    \/ SpiStart \/ SpiDone
    \/ AddWord \/ AddPanic
    \/ WwbEnter \/ ForWord \/ ForReset \/ ForEnd

SpecOffset == InitRect /\ [][NextOffset]_vars

\* images, with pins and a transport that never fail
NextImage ==
    \/ Call_set_offset
    \/ Call_draw_image
    \/ DcDrive
    \/ SpiStart \/ SpiDone
    \/ SubWord \/ SubPanic
    \/ AddWord \/ AddPanic
    \/ WwbEnter \/ ForWord \/ ForReset \/ ForEnd

SpecImage == InitRect /\ [][NextImage]_vars

(***************************************************************************)
(* Vocabulary of the properties.                                           *)
(***************************************************************************)
IsWrite(e) == e[1] = "write"

\* the byte sequences of the transport writes of a trace, in order
Writes(tr) == LET w == SelectSeq(tr, IsWrite) IN [i \in 1 .. Len(w) |-> w[i][2]]

\* the big-endian encoding of a sequence of 16-bit words
BigEndian(ws) == Flatten([i \in 1 .. Len(ws) |-> << ws[i] \div 256, ws[i] % 256 >>])

CeilDiv(n, d) == (n + d - 1) \div d

IsEmpty(b) == b = << >>
NonEmpty(b) == b # << >>

\* what write_words_buffered has emitted
WwbTrace == SubSeq(trace, mark + 1, Len(trace))

\* write_pixels_buffered has returned Ok: so has its write_words_buffered
BufferedDone == op[1] = "write_pixels_buffered" /\ result = "ok"

(***************************************************************************)
(* C1: when write_words_buffered returns Ok on n words, everything it      *)
(* emitted is a data write of at most 32 bytes, and the bytes written, in  *)
(* order, are the big-endian encoding of the n words: 2*n bytes.           *)
(***************************************************************************)
C1_BufferedBytes ==
    BufferedDone =>
        /\ \A i \in 1 .. Len(WwbTrace) :
              IsWrite(WwbTrace[i]) /\ Len(WwbTrace[i][2]) <= 32
        /\ Flatten(Writes(WwbTrace)) = BigEndian(op[2])
        /\ Len(Flatten(Writes(WwbTrace))) = 2 * Len(op[2])

\* 33 distinct words written: two full flushes and a residue of one word
C1_Witness ==
    /\ BufferedDone
    /\ Len(op[2]) = 33 /\ op[2][1] # op[2][2]
    /\ Len(WwbTrace) = 3

(***************************************************************************)
(* C2 as stated: write_words_buffered makes exactly ceil(n/16) writes, the *)
(* final flush included.                                                   *)
(***************************************************************************)
C2_Original ==
    BufferedDone => Len(WwbTrace) = CeilDiv(Len(op[2]), 16)

(***************************************************************************)
(* C2 amended: write_words_buffered makes exactly floor(n/16) + 1 writes,  *)
(* of which ceil(n/16) carry bytes; the final flush is an empty write      *)
(* exactly when n is a multiple of 16 (n = 0 included).                    *)
(***************************************************************************)
C2_FlushCount ==
    BufferedDone =>
        LET n == Len(op[2])
            w == Writes(WwbTrace)
        IN  /\ Len(w) = n \div 16 + 1
            /\ Len(SelectSeq(w, NonEmpty)) = CeilDiv(n, 16)
            /\ IsEmpty(w[Len(w)]) <=> n % 16 = 0

\* 32 words: two full flushes, then the empty final flush
C2_Witness ==
    /\ BufferedDone
    /\ Len(op[2]) = 32
    /\ Len(WwbTrace) = 3 /\ WwbTrace[3] = <<"write", << >> >>

(***************************************************************************)
(* The address window as it appears on the wire: the column-address-set    *)
(* opcode with the line low, the line driven high and two words of two     *)
(* bytes, most significant first; then the same for the rows.  A word that *)
(* does not fit 16 bits has no such encoding.                              *)
(***************************************************************************)
WordWrite(v) ==
    IF v \in 0 .. 65535
    THEN <<"write", << v \div 256, v % 256 >> >>
    ELSE <<"write", <<"no 16-bit word">> >>

WindowTrace(c1, c2, r1, r2) ==
    << <<"dc", "low">>, <<"write", << to_u8("CASET") >> >>, <<"dc", "high">>,
       WordWrite(c1), WordWrite(c2),
       <<"dc", "low">>, <<"write", << to_u8("RASET") >> >>, <<"dc", "high">>,
       WordWrite(r1), WordWrite(r2) >>

WindowLen == Len(WindowTrace(0, 0, 0, 0))

IsPrefix(p, t) == Len(p) <= Len(t) /\ p = SubSeq(t, 1, Len(p))

\* the four sums of a window <<sx, sy, ex, ey>> with the handle's offset, in
\* the order the code computes them
Sums(w) == << w[1] + dx, w[3] + dx, w[2] + dy, w[4] + dy >>

Fits(sums) == \A i \in 1 .. Len(sums) : sums[i] < 65536

\* how much of the window trace precedes the i-th addition
Before(i) == CASE i = 1 -> 3 [] i = 2 -> 4 [] i = 3 -> 8 [] i = 4 -> 9

FirstOverflow(sums) == CHOOSE i \in 1 .. 4 :
    sums[i] >= 65536 /\ \A j \in 1 .. i - 1 : sums[j] < 65536

SetPixelsCall == op[1] = "set_pixels"

(***************************************************************************)
(* C3 as stated: set_address_window never aborts in an addition, and the   *)
(* words it transmits are the arithmetic sums sx+dx, ex+dx, sy+dy, ey+dy.  *)
(***************************************************************************)
C3_Original ==
    SetPixelsCall =>
        LET s == Sums(op[2])
        IN  /\ result # "panic"
            /\ Len(trace) >= WindowLen =>
                 SubSeq(trace, 1, WindowLen) = WindowTrace(s[1], s[2], s[3], s[4])

(***************************************************************************)
(* C3 amended: set_address_window transmits CASET and the words sx+dx,     *)
(* ex+dx, then RASET and the words sy+dy, ey+dy, each word equal to the    *)
(* arithmetic sum when that sum is at most 0xFFFF.  When a sum exceeds     *)
(* 0xFFFF, a build with overflow checks panics at that addition, having    *)
(* emitted only what precedes it, and a build without them transmits the   *)
(* sum modulo 2^16.                                                        *)
(***************************************************************************)
C3_AddressWindow ==
    SetPixelsCall =>
        LET s == Sums(op[2])
            wire == WindowTrace(s[1] % 65536, s[2] % 65536, s[3] % 65536, s[4] % 65536)
        IN  /\ Len(trace) >= WindowLen => SubSeq(trace, 1, WindowLen) = wire
            /\ Len(trace) < WindowLen => IsPrefix(trace, wire)
            /\ Fits(s) => result # "panic"
            /\ ~overflow_checks => result # "panic"
            /\ result = "panic" => Len(trace) = Before(FirstOverflow(s))
            /\ overflow_checks /\ ~Fits(s) => Len(trace) <= Before(FirstOverflow(s))

\* a window of distinct corners, written whole under a non-zero offset
C3_Witness ==
    /\ SetPixelsCall /\ result = "ok"
    /\ op[2] = <<5, 7, 6, 9>> /\ dx = 26 /\ dy = 1
    /\ SubSeq(trace, 1, WindowLen) = WindowTrace(31, 32, 8, 10)

(***************************************************************************)
(* The bring-up sequence as the specification lists it: sixteen commands,  *)
(* each an instruction name and its parameter bytes, the thirteenth and    *)
(* the parameter of the fourteenth depending on the configuration.         *)
(***************************************************************************)
InitList(inversion, madctl) ==
    << <<"SWRESET", << >> >>,
       <<"SLPOUT", << >> >>,
       <<"FRMCTR1", << \h01, \h2C, \h2D >> >>,
       <<"FRMCTR2", << \h01, \h2C, \h2D >> >>,
       <<"FRMCTR3", << \h01, \h2C, \h2D, \h01, \h2C, \h2D >> >>,
       <<"INVCTR", << \h07 >> >>,
       <<"PWCTR1", << \hA2, \h02, \h84 >> >>,
       <<"PWCTR2", << \hC5 >> >>,
       <<"PWCTR3", << \h0A, \h00 >> >>,
       <<"PWCTR4", << \h8A, \h2A >> >>,
       <<"PWCTR5", << \h8A, \hEE >> >>,
       <<"VMCTR1", << \h0E >> >>,
       << inversion, << >> >>,
       <<"MADCTL", << madctl >> >>,
       <<"COLMOD", << \h05 >> >>,
       <<"DISPON", << >> >> >>

\* the commands of a trace: each write with the line low opens a command,
\* each write with the line high adds its bytes to the command open
RECURSIVE Frames(_, _, _)
Frames(tr, level, acc) ==
    IF tr = << >> THEN acc
    ELSE LET e == Head(tr)
         IN  IF e[1] = "dc" THEN Frames(Tail(tr), e[2], acc)
             ELSE IF e[1] # "write" THEN Frames(Tail(tr), level, acc)
             ELSE IF level = "low"
                  THEN Frames(Tail(tr), level, Append(acc, << e[2], << >> >>))
             ELSE IF acc = << >>
                  THEN Frames(Tail(tr), level, << << << >>, e[2] >> >>)
             ELSE Frames(Tail(tr), level,
                         [acc EXCEPT ![Len(acc)] = << @[1], @[2] \o e[2] >>])

Encoded(list) == [i \in 1 .. Len(list) |-> << << to_u8(list[i][1]) >>, list[i][2] >>]

HardResetTrace ==
    << <<"rst", "high">>, <<"delay", 10>>, <<"rst", "low">>, <<"delay", 10>>,
       <<"rst", "high">> >>

IsRst(e) == e[1] = "rst"

InitOk == op = <<"init">> /\ result = "ok"

(***************************************************************************)
(* C4: a failure-free init with rgb = true and inverted = false emits,     *)
(* after the hard reset, exactly the sixteen commands of the list, in      *)
(* order, each with its parameter bytes before the next opcode.            *)
(***************************************************************************)
C4_InitCommands ==
    InitOk /\ rgb /\ ~inverted =>
        /\ SubSeq(trace, 1, 5) = HardResetTrace
        /\ LET rest == SubSeq(trace, 6, Len(trace))
           IN  /\ SelectSeq(rest, IsRst) = << >>
               /\ Frames(rest, "unknown", << >>) = Encoded(InitList("INVOFF", \h00))
               /\ Len(Frames(rest, "unknown", << >>)) = 16

C4_Witness ==
    /\ InitOk /\ rgb /\ ~inverted
    /\ Len(Frames(trace, "unknown", << >>)) = 16

(***************************************************************************)
(* The whole trace of a failure-free init, as the specification describes  *)
(* it: hard reset, then each command framed (line low, opcode, and if it   *)
(* has parameters line high, parameters), with 200 ms after SWRESET,       *)
(* SLPOUT and DISPON.                                                      *)
(***************************************************************************)
Framed(c) ==
    << <<"dc", "low">>, <<"write", << to_u8(c[1]) >> >> >>
    \o (IF c[2] # << >> THEN << <<"dc", "high">>, <<"write", c[2]>> >> ELSE << >>)
    \o (IF c[1] \in { "SWRESET", "SLPOUT", "DISPON" }
        THEN << <<"delay", 200>> >>
        ELSE << >>)

InitTrace(inversion, madctl) ==
    HardResetTrace
    \o Flatten([i \in 1 .. 16 |-> Framed(InitList(inversion, madctl)[i])])

Differences(a, b) == { i \in 1 .. Len(a) : a[i] # b[i] }

\* where a trace of init has the opcode of its n-th command
OpcodeAt(n) ==
    Len(HardResetTrace
        \o Flatten([i \in 1 .. n - 1 |-> Framed(InitList("INVOFF", 0)[i])])) + 2

(***************************************************************************)
(* C5: the trace of a failure-free init is a function of rgb and inverted  *)
(* alone (not of the offset or the panel size); two such traces that       *)
(* differ in inverted alone differ only in the opcode of the 13th command, *)
(* INVON against INVOFF, and two that differ in rgb alone differ only in   *)
(* the parameter byte of MADCTL, 0x00 against 0x08.                        *)
(***************************************************************************)
C5_InitConfig ==
    InitOk =>
        /\ trace = InitTrace(IF inverted THEN "INVON" ELSE "INVOFF",
                             IF rgb THEN \h00 ELSE \h08)
        /\ \A m \in { \h00, \h08 } :
              /\ Len(InitTrace("INVON", m)) = Len(InitTrace("INVOFF", m))
              /\ Differences(InitTrace("INVON", m), InitTrace("INVOFF", m))
                   = { OpcodeAt(13) }
        /\ \A i \in { "INVON", "INVOFF" } :
              /\ Len(InitTrace(i, \h00)) = Len(InitTrace(i, \h08))
              /\ Differences(InitTrace(i, \h00), InitTrace(i, \h08))
                   = { OpcodeAt(14) + 2 }
        /\ trace[OpcodeAt(13)] =
              <<"write", << to_u8(IF inverted THEN "INVON" ELSE "INVOFF") >> >>
        /\ trace[OpcodeAt(14)] = <<"write", << to_u8("MADCTL") >> >>
        /\ trace[OpcodeAt(14) + 2] = <<"write", << IF rgb THEN \h00 ELSE \h08 >> >>

\* an inverted BGR panel of the narrow size, with a non-zero offset
C5_Witness ==
    /\ InitOk /\ inverted /\ ~rgb
    /\ width = 80 /\ dx = 26 /\ dy = 1

(***************************************************************************)
(* The effect a primitive instruction has when it succeeds.                *)
(***************************************************************************)
Effect(ins) == IF ins[1] = "spi" THEN <<"write", ins[2]>> ELSE ins

InitRef == InitTrace(IF inverted THEN "INVON" ELSE "INVOFF", IF rgb THEN \h00 ELSE \h08)

(***************************************************************************)
(* C6: when a reset-pin drive, a data/command-pin drive or a transport     *)
(* write fails during init, init returns an error, what it has emitted is  *)
(* the part of the failure-free trace that precedes the failing operation, *)
(* and it drives no pin, writes nothing and waits no more afterwards.      *)
(***************************************************************************)
C6_InitAbort ==
    /\ [](op = <<"init">> =>
            /\ IsPrefix(trace, InitRef)
            /\ is_some(failed) =>
                 /\ result = "err" /\ todo = << >> /\ ~is_some(inflight)
                 /\ Len(trace) < Len(InitRef)
                 /\ InitRef[Len(trace) + 1] = Effect(unwrap(failed))
            /\ result = "err" => is_some(failed))
    /\ [][op = <<"init">> /\ result = "err" =>
            /\ dc' = dc /\ rst' = rst /\ inflight' = inflight
            /\ trace' = trace \/ (trace' = << >> /\ result' # "err")]_vars

\* the parameter write of MADCTL fails: fourteen opcodes went out before
C6_Witness ==
    /\ op = <<"init">> /\ result = "err"
    /\ failed = { <<"spi", << IF rgb THEN \h00 ELSE \h08 >> >> }
    /\ Len(trace) = OpcodeAt(14) + 1

(***************************************************************************)
(* C7: for each orientation and each colour order, a failure-free          *)
(* set_orientation emits one MADCTL command with one parameter byte: the   *)
(* mode's base value for RGB, that value with bit 0x08 set for BGR; and    *)
(* set_orientation changes no field of the handle.                         *)
(***************************************************************************)
BaseValue(mode) ==
    CASE mode = "Portrait"         -> 0
      [] mode = "Landscape"        -> 96
      [] mode = "PortraitSwapped"  -> 192
      [] mode = "LandscapeSwapped" -> 160

C7_Orientation ==
    /\ [](op[1] = "set_orientation" /\ result = "ok" =>
            /\ op[2] \in Orientation
            /\ trace = << <<"dc", "low">>, <<"write", << to_u8("MADCTL") >> >>,
                          <<"dc", "high">>,
                          <<"write", << BaseValue(op[2]) + (IF rgb THEN 0 ELSE 8) >> >> >>)
    /\ [][op'[1] = "set_orientation" => handle' = handle]_vars

\* landscape-swapped on a BGR panel: 0xA8
C7_Witness ==
    /\ op = <<"set_orientation", "LandscapeSwapped">> /\ result = "ok"
    /\ ~rgb /\ trace[4] = <<"write", << \hA8 >> >>

(***************************************************************************)
(* Memory write of colour words after a window, as it appears on the wire. *)
(***************************************************************************)
MemoryWrite == << <<"dc", "low">>, <<"write", << to_u8("RAMWR") >> >>, <<"dc", "high">> >>

SetPixelCall == op[1] = "set_pixel"

\* the window <<x, y, x, y>> of a set_pixel call
PixelWindow == << op[2], op[3], op[2], op[3] >>

(***************************************************************************)
(* C8 as stated: for all x, y, colour and offset a failure-free set_pixel  *)
(* emits CASET with words x+dx, x+dx, RASET with words y+dy, y+dy, RAMWR   *)
(* and one data write of the colour, most significant byte first.          *)
(***************************************************************************)
C8_Original ==
    SetPixelCall =>
        LET s == Sums(PixelWindow)
        IN  /\ result # "panic"
            /\ result = "ok" =>
                 trace = WindowTrace(s[1], s[2], s[3], s[4]) \o MemoryWrite
                         \o << WordWrite(op[4]) >>

(***************************************************************************)
(* C8 amended: a set_pixel in which no pin or transport fails emits CASET  *)
(* with words x+dx, x+dx, RASET with words y+dy, y+dy, RAMWR and one data  *)
(* write of the two bytes of the colour, most significant first, and       *)
(* nothing else, when x+dx and y+dy are at most 0xFFFF.  When a sum        *)
(* exceeds 0xFFFF, a build without overflow checks emits the same with the *)
(* sum modulo 2^16, and a build with them panics at the addition, having   *)
(* emitted only what precedes it.                                          *)
(***************************************************************************)
C8_SetPixel ==
    SetPixelCall =>
        LET s == Sums(PixelWindow)
            wire == WindowTrace(s[1] % 65536, s[2] % 65536, s[3] % 65536, s[4] % 65536)
                    \o MemoryWrite
                    \o << <<"write", << op[4] \div 256, op[4] % 256 >> >> >>
        IN  /\ IsPrefix(trace, wire)
            /\ result = "ok" => trace = wire
            /\ Fits(s) \/ ~overflow_checks => result # "panic"
            /\ result = "panic" => Len(trace) = Before(FirstOverflow(s))
            /\ result = "ok" /\ ~Fits(s) => ~overflow_checks

\* the example of the specification, under the offset (26, 1)
C8_Witness ==
    /\ op = <<"set_pixel", 5, 7, \hF800>> /\ result = "ok"
    /\ dx = 26 /\ dy = 1
    /\ trace[Len(trace)] = <<"write", << \hF8, \h00 >> >>

(***************************************************************************)
(* Filled rectangles.                                                      *)
(***************************************************************************)
FillCall == op[1] = "draw_rectangle" /\ ~is_some(op[4][2])

RectW == op[3][1] - op[2][1] + 1
RectH == op[3][2] - op[2][2] + 1

\* the colour words of a sequence of data writes
RECURSIVE WordsOf(_)
WordsOf(bytes) ==
    IF Len(bytes) < 2 THEN << >>
    ELSE << 256 * bytes[1] + bytes[2] >> \o WordsOf(SubSeq(bytes, 3, Len(bytes)))

AfterWindow == SubSeq(trace, WindowLen + Len(MemoryWrite) + 1, Len(trace))

FillEmitted ==
    /\ SubSeq(trace, WindowLen + 1, WindowLen + Len(MemoryWrite)) = MemoryWrite
    /\ \A i \in 1 .. Len(AfterWindow) :
          /\ IsWrite(AfterWindow[i])
          /\ Len(AfterWindow[i][2]) <= 32
          /\ Len(AfterWindow[i][2]) % 2 = 0
    /\ WordsOf(Flatten(Writes(AfterWindow))) = [i \in 1 .. RectW * RectH |-> op[4][1]]
    /\ Len(Flatten(Writes(AfterWindow))) = 2 * RectW * RectH

CommandCall == op[1] = "write_command"

CommandTrace ==
    << <<"dc", "low">>, <<"write", << to_u8(op[2]) >> >> >>
    \o (IF is_some(op[3])
        THEN << <<"dc", "high">>, <<"write", unwrap(op[3])>> >>
        ELSE << >>)

IsDc(e) == e[1] = "dc"

\* the level the trace leaves the data/command line at
LineAfter(tr) == LET d == SelectSeq(tr, IsDc) IN d[Len(d)][2]

C10_WriteCommand ==
    /\ [](CommandCall =>
            /\ IsPrefix(trace, CommandTrace)
            /\ result = "ok" => trace = CommandTrace
            /\ result = "err" =>
                 /\ is_some(failed) /\ todo = << >> /\ ~is_some(inflight)
                 /\ Len(trace) < Len(CommandTrace)
                 /\ CommandTrace[Len(trace) + 1] = Effect(unwrap(failed))
                 /\ trace # << >> => dc = LineAfter(trace)
                 /\ Len(trace) \in { 1, 2 } => dc = "low"
                 /\ Len(trace) = 3 => dc = "high"
            /\ is_some(failed) => result = "err")
    /\ [][CommandCall /\ result = "err" =>
            /\ dc' = dc /\ inflight' = inflight
            /\ trace' = trace \/ (trace' = << >> /\ result' # "err")]_vars

\* the opcode write of a command with parameters fails: the line stays low
C10_Witness ==
    /\ CommandCall /\ result = "err"
    /\ is_some(op[3])
    /\ trace = << <<"dc", "low">> >> /\ dc = "low"
    /\ failed = { <<"spi", << to_u8(op[2]) >> >> }

(***************************************************************************)
(* The operations that set an address window, and the window each is       *)
(* called with.                                                            *)
(***************************************************************************)
Addressing == op[1] \in { "set_pixel", "set_pixels", "set_pixels_buffered" }

WindowOf(o) == IF o[1] = "set_pixel" THEN << o[2], o[3], o[2], o[3] >> ELSE o[2]

\* the window words transmitted so far are at trace positions 4, 5, 9, 10
WordAtPlace(i) == CASE i = 1 -> 4 [] i = 2 -> 5 [] i = 3 -> 9 [] i = 4 -> 10

(***************************************************************************)
(* C11: a new handle has offset (0, 0); a set_offset(dx, dy) stores        *)
(* exactly (dx, dy), drives no pin, writes nothing to the transport and    *)
(* leaves rgb, inverted, width and height alone; no other step changes     *)
(* the offset; and every window word an addressing operation (set_pixel,   *)
(* set_pixels, set_pixels_buffered) transmits is its coordinate plus the   *)
(* stored offset, as a 16-bit word.                                        *)
(***************************************************************************)
C11_SetOffset ==
    /\ [](op = NoOp => dx = 0 /\ dy = 0)
    /\ [][op'[1] = "set_offset" =>
            /\ dx' = op'[2] /\ dy' = op'[3]
            /\ trace' = << >> /\ result' = "ok" /\ todo' = << >>
            /\ UNCHANGED << rgb, inverted, width, height, dc, rst, inflight >>]_vars
    /\ [][op'[1] # "set_offset" => UNCHANGED << dx, dy >>]_vars
    /\ [](Addressing =>
            LET s == Sums(WindowOf(op))
            IN  \A i \in 1 .. 4 :
                    Len(trace) >= WordAtPlace(i) =>
                        trace[WordAtPlace(i)] = WordWrite(s[i] % U16))

\* a buffered window write completed under the offset (26, 1) that a
\* set_offset call stored
C11_Witness ==
    /\ op = <<"set_pixels_buffered", <<5, 7, 6, 9>>, Colors("ramp", 2)>>
    /\ result = "ok" /\ dx = 26 /\ dy = 1
    /\ trace[5] = WordWrite(32) /\ trace[10] = WordWrite(10)

(***************************************************************************)
(* The failure-free trace of each drawing operation, from its arguments    *)
(* and the handle: unbuffered colours go out one word per write, buffered  *)
(* ones in writes of 32 bytes followed by one write of the rest.           *)
(***************************************************************************)
DrawingOps == { "set_pixel", "write_pixels", "write_pixels_buffered", "set_pixels",
                "set_pixels_buffered", "set_orientation" }

RECURSIVE Chunked(_)
Chunked(bytes) ==
    IF Len(bytes) < 32 THEN << <<"write", bytes>> >>
    ELSE << <<"write", SubSeq(bytes, 1, 32)>> >> \o Chunked(SubSeq(bytes, 33, Len(bytes)))

WordByWord(colors) == [i \in 1 .. Len(colors) |-> WordWrite(colors[i])]

WindowRef(w) ==
    LET s == Sums(w)
    IN  WindowTrace(s[1] % U16, s[2] % U16, s[3] % U16, s[4] % U16)

DrawRef(o) ==
    CASE o[1] = "set_orientation" ->
            << <<"dc", "low">>, <<"write", << to_u8("MADCTL") >> >>, <<"dc", "high">>,
               <<"write", << BaseValue(o[2]) + (IF rgb THEN 0 ELSE 8) >> >> >>
      [] o[1] = "set_pixel" ->
            WindowRef(WindowOf(o)) \o MemoryWrite \o << WordWrite(o[4]) >>
      [] o[1] = "write_pixels" -> MemoryWrite \o WordByWord(o[2])
      [] o[1] = "write_pixels_buffered" -> MemoryWrite \o Chunked(BigEndian(o[2]))
      [] o[1] = "set_pixels" -> WindowRef(o[2]) \o MemoryWrite \o WordByWord(o[3])
      [] o[1] = "set_pixels_buffered" ->
            WindowRef(o[2]) \o MemoryWrite \o Chunked(BigEndian(o[3]))

(***************************************************************************)
(* C12: in set_pixel, write_pixels, write_pixels_buffered, set_pixels,     *)
(* set_pixels_buffered and set_orientation, the first pin drive or         *)
(* transport write that fails ends the operation with an error: the trace  *)
(* is the part of the failure-free trace for the same arguments that       *)
(* precedes the failing call, the rest (the remaining colours included)    *)
(* is dropped, and no pin is driven and nothing is written or retried      *)
(* until the caller starts another operation.                              *)
(***************************************************************************)
C12_DrawingAbort ==
    /\ [](op[1] \in DrawingOps =>
            /\ IsPrefix(trace, DrawRef(op))
            /\ result = "ok" => trace = DrawRef(op)
            /\ is_some(failed) =>
                 /\ result = "err" /\ todo = << >> /\ ~is_some(inflight)
                 /\ Len(trace) < Len(DrawRef(op))
                 /\ DrawRef(op)[Len(trace) + 1] = Effect(unwrap(failed))
            /\ result = "err" => is_some(failed))
    /\ [][op[1] \in DrawingOps /\ result = "err" =>
            /\ dc' = dc /\ rst' = rst /\ inflight' = inflight
            /\ trace' = trace \/ (trace' = << >> /\ result' # "err")]_vars

\* the second flush of a buffered write of 34 colours fails: the first 16
\* words went out, the other 18 never do
C12_Witness ==
    /\ op[1] = "write_pixels_buffered" /\ Len(op[2]) = 34 /\ result = "err"
    /\ Len(trace) = Len(MemoryWrite) + 1
    /\ Len(unwrap(failed)[2]) = 32
    /\ Len(trace[Len(trace)][2]) = 32

(***************************************************************************)
(* C13: with every transport write split into its start and its            *)
(* completion, at most one write is in flight: between the two the         *)
(* operation is suspended at that write, and the only step is its          *)
(* completion (with Ok, which records it, or with Err); no write is        *)
(* started, no pin is driven and no operation of the handle begins.        *)
(***************************************************************************)
C13_OneInFlight ==
    /\ [](is_some(inflight) =>
            /\ result = "running"
            /\ todo # << >> /\ Head(todo) = <<"spi", unwrap(inflight)>>)
    /\ [][is_some(inflight) =>
            /\ inflight' = None
            /\ dc' = dc /\ rst' = rst /\ op' = op
            /\ \/ trace' = Append(trace, <<"write", unwrap(inflight)>>)
                  /\ result' \in { "running", "ok" }
               \/ trace' = trace /\ result' = "err"]_vars
    /\ [][is_some(inflight') /\ inflight' # inflight =>
            /\ inflight = None
            /\ UNCHANGED << dc, rst, op, trace, todo, result >>]_vars

\* the six colour bytes of a buffered window write are in flight
C13_Witness ==
    /\ op[1] = "set_pixels_buffered" /\ is_some(inflight)
    /\ Len(unwrap(inflight)) = 6 /\ dc = "high"

(***************************************************************************)
(* The commands each public operation sends: an instruction name and the   *)
(* parameter, coordinate or colour bytes that belong to it.                *)
(***************************************************************************)
PublicOps == DrawingOps \cup { "init" }

WindowCommands(w) ==
    LET s == Sums(w)
    IN  << <<"CASET", BigEndian(<< s[1] % U16, s[2] % U16 >>)>>,
           <<"RASET", BigEndian(<< s[3] % U16, s[4] % U16 >>)>> >>

Commands(o) ==
    CASE o[1] = "init" ->
            InitList(IF inverted THEN "INVON" ELSE "INVOFF", IF rgb THEN \h00 ELSE \h08)
      [] o[1] = "set_orientation" ->
            << <<"MADCTL", << BaseValue(o[2]) + (IF rgb THEN 0 ELSE 8) >> >> >>
      [] o[1] = "set_pixel" ->
            WindowCommands(WindowOf(o)) \o << <<"RAMWR", BigEndian(<< o[4] >>)>> >>
      [] o[1] \in { "write_pixels", "write_pixels_buffered" } ->
            << <<"RAMWR", BigEndian(o[2])>> >>
      [] o[1] \in { "set_pixels", "set_pixels_buffered" } ->
            WindowCommands(o[2]) \o << <<"RAMWR", BigEndian(o[3])>> >>

\* the commands f sent so far are the first of g, the last one possibly
\* without all its bytes yet
FramesBegin(f, g) ==
    /\ Len(f) <= Len(g)
    /\ \A i \in 1 .. Len(f) - 1 : f[i] = g[i]
    /\ f # << >> => /\ f[Len(f)][1] = g[Len(f)][1]
                    /\ IsPrefix(f[Len(f)][2], g[Len(f)][2])

\* the level the data/command line was last driven to before the i-th event
LevelAt(i) ==
    LET before == { j \in 1 .. i - 1 : IsDc(trace[j]) }
    IN  IF before = { } THEN "unknown"
        ELSE trace[CHOOSE j \in before : \A k \in before : k <= j][2]

Opcodes == { to_u8(c) : c \in Instruction }

(***************************************************************************)
(* C14: in init, set_orientation, set_pixel, write_pixels,                 *)
(* write_pixels_buffered, set_pixels and set_pixels_buffered, whatever     *)
(* ran before, every transport write made with the data/command line low  *)
(* is one opcode byte, written right after the line was driven low; every  *)
(* other write is made with the line driven high and carries bytes of the  *)
(* command last opened; and the commands of the operation go out in order, *)
(* each with all its bytes before the next opcode.                         *)
(***************************************************************************)
C14_Framing ==
    op[1] \in PublicOps =>
        /\ \A i \in 1 .. Len(trace) :
              IsWrite(trace[i]) =>
                 /\ LevelAt(i) \in Levels
                 /\ LevelAt(i) = "low" =>
                       /\ Len(trace[i][2]) = 1 /\ trace[i][2][1] \in Opcodes
                       /\ trace[i - 1] = <<"dc", "low">>
        /\ FramesBegin(Frames(trace, "unknown", << >>), Encoded(Commands(op)))
        /\ result = "ok" => Frames(trace, "unknown", << >>) = Encoded(Commands(op))

\* a set_pixels of three colours completed: three commands, the last one
\* with the six colour bytes
C14_Witness ==
    /\ op[1] = "set_pixels" /\ result = "ok" /\ Len(op[3]) = 3
    /\ Len(Frames(trace, "unknown", << >>)) = 3
    /\ Len(Frames(trace, "unknown", << >>)[3][2]) = 6

(***************************************************************************)
(* Where write_words_buffered stands: at the top of its loop (which is     *)
(* also where the final flush is decided), at a flush inside the loop, or  *)
(* at the final flush.                                                     *)
(***************************************************************************)
InWriter == Running /\ buffer # << >>

AtLoopStart == InWriter /\ Head(todo)[1] = "for"

AtLoopFlush ==
    InWriter /\ Head(todo)[1] = "spi" /\ Len(todo) >= 2 /\ todo[2] = <<"index0">>

AtFinalFlush ==
    InWriter /\ Head(todo)[1] = "spi" /\ (Len(todo) >= 2 => todo[2] # <<"index0">>)

(***************************************************************************)
(* C15: in write_words_buffered, at the start of every loop iteration and  *)
(* at the final flush, index is even and 0 <= index <= 30, so the stores   *)
(* to buffer[index] and buffer[index + 1] are inside the 32-byte buffer    *)
(* and never panic; a flush inside the loop sends exactly 32 bytes; the    *)
(* final flush sends index bytes, an even number between 0 and 30.         *)
(***************************************************************************)
C15_BufferIndex ==
    /\ buffer # << >> => Len(buffer) = 32 /\ result # "panic"
    /\ AtLoopStart =>
          /\ index % 2 = 0 /\ index >= 0 /\ index <= 30
          /\ index + 1 < Len(buffer)
    /\ AtLoopFlush => Len(Head(todo)[2]) = 32 /\ index = 32
    /\ AtFinalFlush =>
          /\ Len(Head(todo)[2]) = index
          /\ index % 2 = 0 /\ index >= 0 /\ index <= 30

\* 31 words: after one flush of 32 bytes the final flush is about to send
\* the 30 bytes of the last 15 words
C15_Witness ==
    /\ AtFinalFlush /\ index = 30 /\ Len(WwbTrace) = 1
    /\ Len(WwbTrace[1][2]) = 32

(***************************************************************************)
(* The delays of a trace, and the place of each event kind in it.          *)
(***************************************************************************)
IsDelay(e) == e[1] = "delay"

Delays(tr) == LET d == SelectSeq(tr, IsDelay) IN [i \in 1 .. Len(d) |-> d[i][2]]

\* the positions of the delays of 200 ms, in order
LongDelays == { i \in 1 .. Len(trace) : trace[i] = <<"delay", 200>> }

OpcodeWrite(c) == <<"write", << to_u8(c) >> >>

(***************************************************************************)
(* C16: init first drives the reset line high, waits 10 ms, drives it low, *)
(* waits 10 ms and drives it high; it never drives the reset line again    *)
(* and makes no transport write before these five events; a failure-free   *)
(* init waits exactly 10, 10, 200, 200, 200 ms, the three waits of 200 ms  *)
(* right after the opcodes of SWRESET, SLPOUT and DISPON.                  *)
(***************************************************************************)
C16_HardReset ==
    op = <<"init">> =>
        /\ IsPrefix(SubSeq(trace, 1, IF Len(trace) < 5 THEN Len(trace) ELSE 5),
                    HardResetTrace)
        /\ \A i \in 1 .. Len(trace) :
              /\ IsRst(trace[i]) => i <= 5
              /\ IsWrite(trace[i]) \/ IsDc(trace[i]) => i > 5
        /\ Len(trace) >= 5 => rst = "high"
        /\ result = "ok" =>
              /\ SubSeq(trace, 1, 5) = HardResetTrace
              /\ Delays(trace) = << 10, 10, 200, 200, 200 >>
              /\ \E a, b, c \in LongDelays :
                    /\ a < b /\ b < c
                    /\ trace[a - 1] = OpcodeWrite("SWRESET")
                    /\ trace[b - 1] = OpcodeWrite("SLPOUT")
                    /\ trace[c - 1] = OpcodeWrite("DISPON")
                    /\ c = Len(trace)

\* a failure-free init: five waits, the reset line pulsed low and left high
C16_Witness ==
    /\ InitOk /\ rst = "high"
    /\ Delays(trace) = << 10, 10, 200, 200, 200 >>
    /\ trace[3] = <<"rst", "low">> /\ trace[6] = <<"dc", "low">>

(***************************************************************************)
(* The two operations that write colours into the window already set.      *)
(***************************************************************************)
PixelWriters == { "write_pixels", "write_pixels_buffered" }

\* what follows the memory-write command in the trace
AfterMemoryWrite == SubSeq(trace, Len(MemoryWrite) + 1, Len(trace))

(***************************************************************************)
(* C17: whatever ran before, write_pixels and write_pixels_buffered send   *)
(* one command only, the memory write, first, and never a column- or       *)
(* row-address-set; without a failure what follows is nothing but data     *)
(* writes whose bytes are the colour words in input order, and for         *)
(* write_pixels these are exactly n writes of 2 bytes, one per colour.     *)
(***************************************************************************)
C17_PixelWriters ==
    op[1] \in PixelWriters =>
        /\ IsPrefix(SubSeq(trace, 1, IF Len(trace) < 3 THEN Len(trace) ELSE 3),
                    MemoryWrite)
        /\ \A i \in 4 .. Len(trace) : IsWrite(trace[i]) /\ LevelAt(i) = "high"
        /\ \A i \in 1 .. Len(trace) :
              /\ LevelAt(i) = "low" => trace[i] # OpcodeWrite("CASET")
              /\ LevelAt(i) = "low" => trace[i] # OpcodeWrite("RASET")
        /\ result = "ok" =>
              /\ SubSeq(trace, 1, 3) = MemoryWrite
              /\ Flatten(Writes(AfterMemoryWrite)) = BigEndian(op[2])
              /\ op[1] = "write_pixels" =>
                    /\ Len(AfterMemoryWrite) = Len(op[2])
                    /\ \A i \in 1 .. Len(op[2]) :
                          AfterMemoryWrite[i] = <<"write", to_be_bytes(op[2][i])>>

\* three different colours written without a buffer: three writes of a word
C17_Witness ==
    /\ op[1] = "write_pixels" /\ result = "ok"
    /\ Len(op[2]) = 3 /\ op[2][1] # op[2][2]
    /\ Len(AfterMemoryWrite) = 3 /\ Len(AfterMemoryWrite[3][2]) = 2

(***************************************************************************)
(* An image call: its corners as draw_image casts them, and the four words *)
(* C18 says the address window carries.                                    *)
(***************************************************************************)
ImageCall == op[1] = "draw_image"

ImageClaimed ==
    LET sx == as_u16(op[2][1])
        sy == as_u16(op[2][2])
        ex == as_u16(op[3][1])
        ey == as_u16(op[3][2])
    IN  << sx + dx, ex - 1 + dx, sy + dy, ey - 1 + dy >>

Representable(ws) == \A i \in 1 .. Len(ws) : ws[i] \in 0 .. 65535

(***************************************************************************)
(* C18 as stated, on the images and offsets for which the four claimed     *)
(* words exist: draw_image for an image of corner (sx, sy) and extent      *)
(* (ex, ey), ex = 0 or ey = 0 included, runs to the end when no pin or     *)
(* transport fails, sets the window to sx+dx, ex-1+dx, sy+dy, ey-1+dy,     *)
(* sends one memory-write command and streams the pixels in iterator       *)
(* order through the buffered writer.                                      *)
(***************************************************************************)
C18_DrawImage ==
    ImageCall /\ Representable(ImageClaimed) =>
        LET c == ImageClaimed
        IN  /\ result # "panic"
            /\ Len(trace) >= WindowLen =>
                  SubSeq(trace, 1, WindowLen) = WindowTrace(c[1], c[2], c[3], c[4])
            /\ result = "ok" =>
                  /\ SubSeq(trace, WindowLen + 1, WindowLen + Len(MemoryWrite))
                        = MemoryWrite
                  /\ AfterWindow = Chunked(BigEndian(op[4]))

\* an image of width 0 at the origin, offset (26, 1), overflow checks on:
\* `ex - 1` panics before anything is sent, where C18 has the window
\* 26, 25, 1, 1
C18_Witness ==
    /\ ImageCall /\ op[2] = <<0, 0>> /\ op[3] = <<0, 1>>
    /\ dx = 26 /\ dy = 1 /\ overflow_checks
    /\ ImageClaimed = << 26, 25, 1, 1 >>
    /\ result = "panic" /\ trace = << >>
    /\ failed = { <<"sub", 0, 1>> }

(***************************************************************************)
(* A trace without its partition into transactions: drives of the          *)
(* data/command line and command writes stay as they are, the data writes  *)
(* between two of them are joined into one, and a write of no bytes        *)
(* disappears.                                                             *)
(***************************************************************************)
RECURSIVE Joined(_, _, _)
Joined(tr, level, acc) ==
    IF tr = << >> THEN acc
    ELSE LET e == Head(tr)
         IN  IF e[1] = "dc" THEN Joined(Tail(tr), e[2], Append(acc, e))
             ELSE IF e[1] # "write" THEN Joined(Tail(tr), level, Append(acc, e))
             ELSE IF level # "high"
                  THEN Joined(Tail(tr), level, Append(acc, <<"command", e[2]>>))
             ELSE IF e[2] = << >> THEN Joined(Tail(tr), level, acc)
             ELSE IF acc # << >> /\ acc[Len(acc)][1] = "data"
                  THEN Joined(Tail(tr), level,
                              [acc EXCEPT ![Len(acc)] = <<"data", @[2] \o e[2]>>])
             ELSE Joined(Tail(tr), level, Append(acc, <<"data", e[2]>>))

\* what a window write of the colours is, whichever operation makes it
WindowWrite(w, colors) ==
    LET s == Sums(w)
    IN  << <<"dc", "low">>, <<"command", << to_u8("CASET") >> >>, <<"dc", "high">>,
           <<"data", BigEndian(<< s[1] % U16, s[2] % U16 >>)>>,
           <<"dc", "low">>, <<"command", << to_u8("RASET") >> >>, <<"dc", "high">>,
           <<"data", BigEndian(<< s[3] % U16, s[4] % U16 >>)>>,
           <<"dc", "low">>, <<"command", << to_u8("RAMWR") >> >>, <<"dc", "high">> >>
        \o (IF colors = << >> THEN << >> ELSE << <<"data", BigEndian(colors)>> >>)

PairCall == op[1] \in { "set_pixels", "set_pixels_buffered" }

(***************************************************************************)
(* C19: on the same handle state, window and colours, a set_pixels and a   *)
(* set_pixels_buffered in which nothing fails emit the same commands, the  *)
(* same drives of the data/command line and the same stream of data        *)
(* bytes, in the same order: with the data writes joined, the trace of     *)
(* either is one function of the window, the offset and the colours.  The  *)
(* unbuffered one writes one word per transaction; the buffered one        *)
(* writes up to 16 words per transaction and ends with a transaction of    *)
(* the rest, which may be empty.                                           *)
(***************************************************************************)
C19_SameStream ==
    PairCall /\ result = "ok" =>
        /\ Joined(trace, "unknown", << >>) = WindowWrite(op[2], op[3])
        /\ LET data == SubSeq(trace, WindowLen + Len(MemoryWrite) + 1, Len(trace))
           IN  IF op[1] = "set_pixels"
               THEN data = WordByWord(op[3])
               ELSE data = Chunked(BigEndian(op[3]))

\* 17 colours through the buffered operation, under the offset (26, 1):
\* two transactions, of 32 and of 2 bytes, where set_pixels makes 17 of two
C19_Witness ==
    /\ op[1] = "set_pixels_buffered" /\ result = "ok"
    /\ Len(op[3]) = 17 /\ dx = 26 /\ dy = 1
    /\ Len(trace) = WindowLen + Len(MemoryWrite) + 2
    /\ Len(WordByWord(op[3])) = 17
    /\ Joined(trace, "unknown", << >>) = WindowWrite(op[2], op[3])

(***************************************************************************)
(* Rectangles with a fill and a stroke colour.  The colour words are in    *)
(* row-major order: the word of column c of row r (both from 0) is the     *)
(* (r * w + c + 1)-th.                                                     *)
(***************************************************************************)
StrokeCall == op[1] = "draw_rectangle" /\ is_some(op[4][2]) /\ op[4][3] >= 1

RectWords == WordsOf(Flatten(Writes(AfterWindow)))

PixelWord(r, c) == RectWords[r * RectW + c + 1]

OnBorder(r, c) == r = 0 \/ r = RectH - 1 \/ c = 0 \/ c = RectW - 1

====
